---- MODULE Spec2Model ----
(***************************************************************************)
(* Cement plant digital twin backend: the sensor store, the alert and      *)
(* dashboard handlers of the main_simple_fixed / main_gemini_simple /      *)
(* main_updated entry points, and the conversation map of RAGService.      *)
(*                                                                         *)
(* Numbers are fixed-point integers in thousandths of the sensor unit      *)
(* (1245 degrees = 1245000), so that a value before round(value, 2) can be *)
(* told from the stored value, which is a multiple of 10.                  *)
(***************************************************************************)
EXTENDS Integers, Sequences, FiniteSets, TLC

VARIABLES
    variant,            \* which entry point module is running
    sensor_data_store,  \* sensor id -> reading [value, trend, status]
    now,                \* int(time.time()): the wall clock in whole seconds
    polls,              \* number of GET /api/sensors served so far
    calibrations,       \* number of accepted calibrations so far
    response,           \* the response of the request served last (regenerated:
                        \* the number of generate_sensor_value calls it made)
    conversations,      \* RAGService.conversations: id -> list of messages
    chats,              \* the chat requests: where each stands and its result
    uuids,              \* number of uuid4 conversation ids generated so far
    history_reply,      \* what get_conversation_history returned last
    appended,           \* per id, the messages appended since its last clear
    text_model,         \* the Gemini model of the entry point, or "none"
    pending,            \* the handler standing at its LLM call, or NoCall
    llm_calls,          \* number of generate_content calls issued so far
    requests,           \* number of analysis / chat / agent requests so far
    conversation_history, \* main_updated: conversation id -> list of messages
    agent_tasks,        \* main_updated: task id -> result
    simulation_data_store, \* the simulation points kept
    mill_data_store,    \* the mill points kept
    alerts_store,       \* the alerts list the entry points declare
    generated,          \* number of points generated so far, per series
    series_limit,       \* number of requests the clients send per series
    task_objects,       \* the AgentTask objects made so far, by task id
    active_tasks,       \* AgentService.active_tasks: the ids it holds a task for
    task_history,       \* AgentService.task_history: the list of tasks, by id
    executions,         \* the execute_task calls: where each stands, its result
    status_reply,       \* what GET /tasks/{task_id}/status answered last
    rag_service,        \* the module-level rag_service of the plantgpt router
    handed              \* what get_rag_service gave the last handler

sensorVars == <<variant, sensor_data_store, now, polls, calibrations, response>>

sensorVarsButResponse == <<variant, sensor_data_store, now, polls, calibrations>>

ragVars == <<conversations, chats, uuids, history_reply, appended>>

aiVars == <<text_model, pending, llm_calls, requests, conversation_history,
           agent_tasks>>

seriesVars == <<simulation_data_store, mill_data_store, alerts_store, generated,
               series_limit>>

appVars == <<task_objects, active_tasks, task_history, executions, status_reply,
            rag_service, handed>>

vars == <<sensorVars, ragVars, aiVars, seriesVars, appVars>>

\* ---------------------------------------------------------------- bounds
MaxPolls == 4
MaxCalibrations == 3
MaxTime == 1
MaxChats == 3

Variants == {"simple_fixed", "gemini_simple", "updated"}

\* ------------------------------------------------------- sensor catalogs
Cfg(mn, mx, opt) == [min |-> mn, max |-> mx, optimal |-> opt]

CfgC(mn, mx, opt, crit) == [min |-> mn, max |-> mx, optimal |-> opt, critical |-> crit]

\* SENSORS of main_simple_fixed (main_gemini_simple declares the same table)
SensorOrderSimple ==
    << "temp1", "temp2", "temp3", "burning", "cooler", "load", "vibration",
       "emission", "particle-emission", "mill-feed", "mill-pressure",
       "mill-particle", "mill-eff", "stack-flow" >>

SENSORS_simple ==
    [ s \in {SensorOrderSimple[i] : i \in 1..Len(SensorOrderSimple)} |->
        CASE s = "temp1"             -> Cfg(1200000, 1300000, 1245000)
          [] s = "temp2"             -> Cfg(1300000, 1400000, 1350000)
          [] s = "temp3"             -> Cfg(1000000, 1200000, 1120000)
          [] s = "burning"           -> Cfg(1400000, 1500000, 1450000)
          [] s = "cooler"            -> Cfg(150000, 250000, 180000)
          [] s = "load"              -> Cfg(70000, 100000, 87000)
          [] s = "vibration"         -> Cfg(1500, 4000, 2300)
          [] s = "emission"          -> Cfg(200000, 300000, 245000)
          [] s = "particle-emission" -> Cfg(30000, 60000, 45000)
          [] s = "mill-feed"         -> Cfg(10000, 15000, 12400)
          [] s = "mill-pressure"     -> Cfg(1500, 2500, 2100)
          [] s = "mill-particle"     -> Cfg(8000, 16000, 12000)
          [] s = "mill-eff"          -> Cfg(70000, 90000, 78000)
          [] s = "stack-flow"        -> Cfg(1000000, 1500000, 1250000) ]

\* SENSORS of main_updated
SensorOrderUpdated ==
    SensorOrderSimple \o << "fuel-rate", "oxygen", "co-level" >>

SENSORS_updated ==
    [ s \in {SensorOrderUpdated[i] : i \in 1..Len(SensorOrderUpdated)} |->
        CASE s = "temp1"             -> CfgC(1200000, 1300000, 1245000, 1350000)
          [] s = "temp2"             -> CfgC(1300000, 1400000, 1350000, 1450000)
          [] s = "temp3"             -> CfgC(1000000, 1200000, 1120000, 1250000)
          [] s = "burning"           -> CfgC(1400000, 1500000, 1450000, 1600000)
          [] s = "cooler"            -> CfgC(150000, 250000, 180000, 300000)
          [] s = "load"              -> CfgC(70000, 100000, 87000, 105000)
          [] s = "vibration"         -> CfgC(1500, 4000, 2300, 5000)
          [] s = "emission"          -> CfgC(200000, 300000, 245000, 500000)
          [] s = "particle-emission" -> CfgC(30000, 60000, 45000, 100000)
          [] s = "mill-feed"         -> CfgC(10000, 15000, 12400, 18000)
          [] s = "mill-pressure"     -> CfgC(1500, 2500, 2100, 3000)
          [] s = "mill-particle"     -> CfgC(8000, 16000, 12000, 20000)
          [] s = "mill-eff"          -> CfgC(70000, 90000, 78000, 60000)
          [] s = "stack-flow"        -> CfgC(1000000, 1500000, 1250000, 1800000)
          [] s = "fuel-rate"         -> CfgC(500000, 800000, 650000, 900000)
          [] s = "oxygen"            -> CfgC(2000, 4500, 3200, 6000)
          [] s = "co-level"          -> CfgC(50000, 200000, 100000, 500000) ]

SensorOrder(v) == IF v = "updated" THEN SensorOrderUpdated ELSE SensorOrderSimple

SENSORS(v) == IF v = "updated" THEN SENSORS_updated ELSE SENSORS_simple

SensorIds(v) == DOMAIN SENSORS(v)

\* ------------------------------------------------------------ arithmetic
Abs(x) == IF x < 0 THEN -x ELSE x

Max2(a, b) == IF a > b THEN a ELSE b

Min2(a, b) == IF a < b THEN a ELSE b

\* round(x, n) of Python for x >= 0: to the closest multiple of unit, a tie
\* going to the even multiple
RoundTo(x, unit) ==
    LET q == x \div unit
        r == x % unit
    IN  IF 2 * r < unit THEN q * unit
        ELSE IF 2 * r > unit THEN (q + 1) * unit
        ELSE IF q % 2 = 0 THEN q * unit ELSE (q + 1) * unit

\* variation = (max - min) * 0.05
Variation(cfg) == (cfg.max - cfg.min) \div 20


\* Clamp without its lower bound
ClampUpperOnly(lo, hi, value) == Min2(hi, value)

\* value = max(lo, min(hi, value))
Clamp(lo, hi, value) == Max2(lo, Min2(hi, value))

\* ----------------------------------------------- generate_sensor_value
\* generate_sensor_value of the entry points without a critical bound, its
\* status taken from the 15% band around optimal
GenerateSimpleByBand(cfg, base_value, noise) ==
    LET value == Clamp(cfg.min, cfg.max, base_value + noise)
        trend == IF 10 * value > 11 * cfg.optimal THEN "up"
                 ELSE IF 10 * value < 9 * cfg.optimal THEN "down"
                 ELSE "stable"
    IN  [ value  |-> RoundTo(value, 10),
          trend  |-> trend,
          status |-> IF 100 * Abs(value - cfg.optimal) > 15 * cfg.optimal
                     THEN "warning" ELSE "normal" ]

\* main_simple_fixed / main_gemini_simple: base_value plus one noise draw
\* (noise stands for random.uniform(-variation, variation))
GenerateSimple(cfg, base_value, noise) ==
    LET variation == Variation(cfg)
        value     == Clamp(cfg.min, cfg.max, base_value + noise)
        trend     == IF 10 * value > 11 * cfg.optimal THEN "up"
                     ELSE IF 10 * value < 9 * cfg.optimal THEN "down"
                     ELSE "stable"
    IN  [ value  |-> RoundTo(value, 10),
          trend  |-> trend,
          status |-> IF Abs(value - cfg.optimal) < variation
                     THEN "normal" ELSE "warning" ]

\* main_updated's status with the band tested before the critical bound
StatusUpdatedBandFirst(cfg, value) ==
    IF 100 * value > 115 * cfg.optimal THEN "warning"
    ELSE IF 100 * value < 85 * cfg.optimal THEN "warning"
    ELSE IF value > cfg.critical THEN "critical"
    ELSE "normal"

\* status and trend of main_updated for the value before rounding
StatusUpdated(cfg, value) ==
    IF value > cfg.critical THEN "critical"
    ELSE IF 100 * value > 115 * cfg.optimal THEN "warning"
    ELSE IF 100 * value < 85 * cfg.optimal THEN "warning"
    ELSE "normal"

\* the trend of main_updated without the rule that forces it to stable
TrendUpdatedUnsmoothed(cfg, value) ==
    IF value > cfg.critical THEN "up"
    ELSE IF 100 * value > 115 * cfg.optimal THEN "up"
    ELSE IF 100 * value < 85 * cfg.optimal THEN "down"
    ELSE "stable"

TrendUpdated(cfg, value) ==
    IF 2 * Abs(value - cfg.optimal) < Variation(cfg) THEN "stable"
    ELSE IF value > cfg.critical THEN "up"
    ELSE IF 100 * value > 115 * cfg.optimal THEN "up"
    ELSE IF 100 * value < 85 * cfg.optimal THEN "down"
    ELSE "stable"

\* generate_sensor_value of main_updated with ten times the drift
GenerateUpdatedWideDrift(cfg, base_value, noise, drift) ==
    LET value == Clamp((cfg.min * 8) \div 10, (cfg.max * 12) \div 10,
                       base_value + noise + 10 * drift)
    IN  [ value  |-> RoundTo(value, 10),
          trend  |-> "stable",
          status |-> "normal" ]

\* main_updated: base_value plus a noise draw plus a drift draw
\* (drift stands for random.uniform(-0.1, 0.1)), clamped to the relaxed band
GenerateUpdated(cfg, base_value, noise, drift) ==
    LET value == Clamp((cfg.min * 8) \div 10, (cfg.max * 12) \div 10,
                       base_value + noise + drift)
    IN  [ value  |-> RoundTo(value, 10),
          trend  |-> TrendUpdated(cfg, value),
          status |-> StatusUpdated(cfg, value) ]

generate_sensor_value(v, sensor_id, base_value, noise, drift) ==
    IF v = "updated"
    THEN GenerateUpdated(SENSORS_updated[sensor_id], base_value, noise, drift)
    ELSE GenerateSimple(SENSORS_simple[sensor_id], base_value, noise)

\* ------------------------------------------------- sampled random draws
\* drift = random.uniform(-0.1, 0.1)
DRIFT == 100

\* a drift draw below the resolution of round(value, 2)
FINE == DRIFT \div 25

\* the sensors whose random draws are explored; the others draw 0
Jittered(v) ==
    IF v = "updated" THEN {"co-level", "vibration"} ELSE {"load"}

\* the sampled draws of one sensor, as <<noise, drift>>: noise is a point of
\* [-variation, variation] and drift a point of [-DRIFT, DRIFT] (main_updated
\* only; the other entry points have no drift)
SensorDraws(v, s) ==
    LET variation == Variation(SENSORS(v)[s])
    IN  IF s \notin Jittered(v) THEN {<<0, 0>>}
        ELSE IF v # "updated"
             THEN {<<-variation, 0>>, <<0, 0>>, <<variation, 0>>}
        ELSE IF s = "vibration"
             THEN {<<-variation, -DRIFT>>, <<0, 0>>}
        ELSE {<<-variation, 0>>, <<-variation, -FINE>>, <<0, 0>>,
              <<variation, 0>>, <<variation, DRIFT>>}

\* one <<noise, drift>> per sensor of the catalog
DrawSet(v) ==
    { [s \in SensorIds(v) |-> IF s \in Jittered(v) THEN p[s] ELSE <<0, 0>>] :
        p \in { q \in [Jittered(v) -> UNION {SensorDraws(v, s) : s \in Jittered(v)}] :
                  \A s \in Jittered(v) : q[s] \in SensorDraws(v, s) } }

\* generate_all_sensor_data: every sensor seeded from its optimal value
generate_all_sensor_data(v, draw) ==
    [ s \in SensorIds(v) |->
        generate_sensor_value(v, s, SENSORS(v)[s].optimal, draw[s][1], draw[s][2]) ]

\* ------------------------------------------------------------- handlers
NoResponse == [op |-> "none", code |-> 0]

\* RAGService.__init__: no conversation, no request under way
RAGServiceInit ==
    /\ conversations = << >>
    /\ chats = [r \in 1..MaxChats |-> [pc |-> "idle"]]
    /\ uuids = 0
    /\ history_reply = [op |-> "none"]
    /\ appended = << >>

\* no handler stands at an LLM call
NoCall == [op |-> "none"]

\* bounds on the tasks created and on the execute_task calls made
MaxTasks == 2
MaxExecutions == 2

\* AgentService.__init__: no task, no history, no call under way
AgentServiceInit ==
    /\ task_objects = << >>
    /\ active_tasks = {}
    /\ task_history = << >>
    /\ executions = [e \in 1..MaxExecutions |-> [pc |-> "idle"]]
    /\ status_reply = [op |-> "none"]

\* get_rag_service has not been called
NotHanded == [outcome |-> "none"]

\* get_rag_service returned the instance, having or not having performed
\* initialize_knowledge_base on this request
Handed(service, performed) ==
    [outcome |-> "instance", initialized |-> service.initialized,
     performed |-> performed]

\* rag_service = None, as the plantgpt router declares it
NoService == [instance |-> "None", initialized |-> FALSE]

\* the instance get_rag_service made on the first request, initialised
ServiceReady == [instance |-> "RAGService", initialized |-> TRUE]

\* the services of the app before its first request
AppInit ==
    /\ AgentServiceInit
    /\ rag_service = NoService
    /\ handed = NotHanded

\* the module-level stores other than sensor_data_store, as declared
StoresInit ==
    /\ simulation_data_store = << >>
    /\ mill_data_store = << >>
    /\ alerts_store = << >>
    /\ conversation_history = << >>
    /\ agent_tasks = << >>
    /\ generated = [simulation |-> 0, mill |-> 0]
    /\ pending = NoCall
    /\ llm_calls = 0
    /\ requests = 0

Init ==
    /\ variant \in Variants
    /\ \E draw \in DrawSet(variant) :
          sensor_data_store = generate_all_sensor_data(variant, draw)
    /\ now = 0
    /\ polls = 0
    /\ calibrations = 0
    /\ response = NoResponse
    /\ RAGServiceInit
    /\ AppInit
    /\ StoresInit
    /\ text_model = "none"
    /\ series_limit = 0

\* the wall clock reaches the next second
Tick ==
    /\ now < MaxTime
    /\ now' = now + 1
    /\ UNCHANGED <<appVars, ragVars, aiVars, seriesVars>>
    /\ UNCHANGED <<variant, sensor_data_store, polls, calibrations, response>>

Count(store, st) == Cardinality({s \in DOMAIN store : store[s].status = st})

overall_status(store) ==
    IF Count(store, "critical") > 0 THEN "critical"
    ELSE IF Count(store, "warning") > 2 THEN "warning"
    ELSE "normal"

\* the refresh loop seeding every sensor from its optimal value again
RefreshedFromOptimal(v, store, draw) == generate_all_sensor_data(v, draw)

\* the store after the refresh loop of GET /api/sensors
Refreshed(v, store, draw) ==
    [ s \in SensorIds(v) |->
        generate_sensor_value(v, s, store[s].value, draw[s][1], draw[s][2]) ]

\* GET /api/sensors, the random draws of its refresh loop taken from draws
SensorsHandler(draws) ==
    /\ polls < MaxPolls
    /\ \E draw \in draws :
          LET new == Refreshed(variant, sensor_data_store, draw)
          IN  /\ sensor_data_store' = new
              /\ response' =
                    IF variant = "updated"
                    THEN [op |-> "sensors", code |-> 200,
                          overall_status |-> overall_status(new), data |-> new,
                          regenerated |-> Len(SensorOrder(variant))]
                    ELSE [op |-> "sensors", code |-> 200, data |-> new,
                          regenerated |-> Len(SensorOrder(variant))]
    /\ polls' = polls + 1
    /\ UNCHANGED <<appVars, ragVars, aiVars, seriesVars>>
    /\ UNCHANGED <<variant, now, calibrations>>

\* GET /api/sensors
get_sensor_data == SensorsHandler(DrawSet(variant))

\* GET /api/sensors/{sensor_id} (main_simple_fixed, main_gemini_simple)
get_specific_sensor(sensor_id) ==
    /\ variant # "updated"
    /\ response' =
          IF sensor_id \notin SensorIds(variant)
          THEN [op |-> "sensor", code |-> 404, sensor_id |-> sensor_id]
          ELSE [op |-> "sensor", code |-> 200, sensor_id |-> sensor_id,
                data |-> sensor_data_store[sensor_id], regenerated |-> 0]
    /\ UNCHANGED <<appVars, ragVars, aiVars, seriesVars>>
    /\ UNCHANGED <<variant, sensor_data_store, now, polls, calibrations>>

\* get_alerts raising an alert in the first second only and suppressing it
\* from then on
AlertSimpleOnce(s, data, t) ==
    IF t = 0 /\ (100 * data.value > 115 * SENSORS_simple[s].optimal
                 \/ 100 * data.value < 85 * SENSORS_simple[s].optimal)
    THEN << [id |-> <<"alert", s, t>>, type |-> "warning", sensor |-> s,
             message |-> "outside", severity |-> "medium"] >>
    ELSE << >>

\* the alert get_alerts appends for one sensor, as a sequence of 0 or 1 alerts
AlertSimple(s, data, t) ==
    LET config == SENSORS_simple[s]
        value  == data.value
    IN  IF 100 * value > 115 * config.optimal
        THEN << [id |-> <<"alert", s, t>>, type |-> "warning", sensor |-> s,
                 message |-> "above", severity |-> "medium"] >>
        ELSE IF 100 * value < 85 * config.optimal
        THEN << [id |-> <<"alert", s, t>>, type |-> "warning", sensor |-> s,
                 message |-> "below", severity |-> "medium"] >>
        ELSE << >>

\* get_enhanced_alerts without its branch for a critical status
AlertUpdatedWarningOnly(s, data, t) ==
    IF data.status = "warning"
    THEN << [id |-> <<"warning", s, t>>, type |-> "warning", sensor |-> s,
             message |-> "WARNING", severity |-> "medium"] >>
    ELSE << >>

\* the alert get_enhanced_alerts appends for one sensor
AlertUpdated(s, data, t) ==
    IF data.status = "critical"
    THEN << [id |-> <<"critical", s, t>>, type |-> "critical", sensor |-> s,
             message |-> "CRITICAL", severity |-> "critical"] >>
    ELSE IF data.status = "warning"
    THEN << [id |-> <<"warning", s, t>>, type |-> "warning", sensor |-> s,
             message |-> "WARNING", severity |-> "medium"] >>
    ELSE << >>

\* the alerts list after the loop over sensor_data_store.items(), which
\* iterates in the insertion order of the catalog
RECURSIVE AlertList(_, _, _, _)
AlertList(v, store, t, i) ==
    IF i > Len(SensorOrder(v)) THEN << >>
    ELSE LET s == SensorOrder(v)[i]
         IN  (IF v = "updated" THEN AlertUpdated(s, store[s], t)
                               ELSE AlertSimple(s, store[s], t))
             \o AlertList(v, store, t, i + 1)

CountSeverity(alerts, sev) ==
    Cardinality({i \in 1..Len(alerts) : alerts[i].severity = sev})

\* the body GET /api/alerts returns
AlertsBody(v, store, t) ==
    LET alerts == AlertList(v, store, t, 1)
    IN  IF v = "updated"
        THEN [alerts |-> alerts,
              summary |-> [total    |-> Len(alerts),
                           critical |-> CountSeverity(alerts, "critical"),
                           warning  |-> CountSeverity(alerts, "medium")]]
        ELSE [alerts |-> alerts, count |-> Len(alerts)]

\* GET /api/alerts keeping the alerts it returned in alerts_store
get_alerts_persisting ==
    /\ pending = NoCall
    /\ response' = [op |-> "alerts", code |-> 200,
                    body |-> AlertsBody(variant, sensor_data_store, now)]
    /\ alerts_store' = AlertList(variant, sensor_data_store, now, 1)
    /\ UNCHANGED <<simulation_data_store, mill_data_store, generated, series_limit>>
    /\ UNCHANGED <<appVars, ragVars, aiVars>>
    /\ UNCHANGED <<variant, sensor_data_store, now, polls, calibrations>>

\* GET /api/alerts
get_alerts ==
    /\ pending = NoCall
    /\ response' = [op |-> "alerts", code |-> 200,
                    body |-> AlertsBody(variant, sensor_data_store, now)]
    /\ UNCHANGED <<appVars, ragVars, aiVars, seriesVars>>
    /\ UNCHANGED <<variant, sensor_data_store, now, polls, calibrations>>

\* overall_efficiency rounded to no decimal instead of one
overall_efficiency_whole(store) ==
    RoundTo((store["mill-eff"].value + store["load"].value) \div 2, 1000)

\* avg_efficiency = sum(value of mill-eff, load) / 2, then round(.., 1)
overall_efficiency(store) ==
    RoundTo((store["mill-eff"].value + store["load"].value) \div 2, 100)

production_rate_daily(store) == RoundTo(store["mill-feed"].value * 24, 1000)

\* system_status with the threshold off by one
system_status_simple_off(alert_count) ==
    IF alert_count < 2 THEN "operational" ELSE "warning"

\* "operational" if alert_count < 3 else "warning"
system_status_simple(alert_count) ==
    IF alert_count < 3 THEN "operational" ELSE "warning"

\* "critical" if critical > 0 else "warning" if warning > 2 else "normal"
system_status_updated(alert_summary) ==
    IF alert_summary.critical > 0 THEN "critical"
    ELSE IF alert_summary.warning > 2 THEN "warning"
    ELSE "normal"

\* the summary GET /api/dashboard/summary returns (its random
\* energy_consumption and co2_emissions fields are left out)
SummaryBody(v, store, t) ==
    LET alerts == AlertsBody(v, store, t)
    IN  IF v = "updated"
        THEN [overall_efficiency    |-> overall_efficiency(store),
              production_rate_daily |-> production_rate_daily(store),
              active_alerts         |-> alerts.summary.total,
              critical_alerts       |-> alerts.summary.critical,
              system_status         |-> system_status_updated(alerts.summary)]
        ELSE [overall_efficiency    |-> overall_efficiency(store),
              production_rate_daily |-> production_rate_daily(store),
              active_alerts         |-> alerts.count,
              system_status         |-> system_status_simple(alerts.count)]

\* GET /api/dashboard/summary
get_dashboard_summary ==
    /\ pending = NoCall
    /\ response' = [op |-> "summary", code |-> 200,
                    summary |-> SummaryBody(variant, sensor_data_store, now)]
    /\ UNCHANGED <<appVars, ragVars, aiVars, seriesVars>>
    /\ UNCHANGED <<variant, sensor_data_store, now, polls, calibrations>>

\* the sampled target_value inputs of a calibration of sensor s
Targets(s) ==
    IF s \in SensorIds("simple_fixed")
    THEN LET config == SENSORS_simple[s]
         IN  {config.min - 1000, config.min, config.optimal, config.max,
              config.max + 1000}
    ELSE {0}

\* the range check without its upper bound
OutOfRangeLowOnly(config, target_value) == target_value < config.min

\* target_value < config["min"] or target_value > config["max"]
OutOfRange(config, target_value) ==
    target_value < config.min \/ target_value > config.max

\* POST /api/sensors/{sensor_id}/calibrate (main_simple_fixed only)
calibrate_sensor(sensor_id, target_value) ==
    /\ variant = "simple_fixed"
    /\ IF sensor_id \notin SensorIds(variant)
       THEN /\ response' = [op |-> "calibrate", code |-> 404,
                            sensor_id |-> sensor_id, target_value |-> target_value]
            /\ UNCHANGED <<sensor_data_store, calibrations>>
       ELSE LET config == SENSORS_simple[sensor_id]
            IN  IF OutOfRange(config, target_value)
                THEN /\ response' = [op |-> "calibrate", code |-> 400,
                                     sensor_id |-> sensor_id,
                                     target_value |-> target_value]
                     /\ UNCHANGED <<sensor_data_store, calibrations>>
                ELSE /\ calibrations < MaxCalibrations
                     /\ \E d \in SensorDraws(variant, sensor_id) :
                           sensor_data_store' =
                              [sensor_data_store EXCEPT ![sensor_id] =
                                 generate_sensor_value(variant, sensor_id,
                                                       target_value, d[1], d[2])]
                     /\ calibrations' = calibrations + 1
                     /\ response' = [op |-> "calibrate", code |-> 200,
                                     sensor_id |-> sensor_id,
                                     target_value |-> target_value,
                                     data |-> sensor_data_store'[sensor_id]]
    /\ UNCHANGED <<appVars, ragVars, aiVars, seriesVars>>
    /\ UNCHANGED <<variant, now, polls>>

\* the sensor ids requests are sent for: catalog ids and one unknown id
RequestIds == {"load", "mill-eff", "cooler", "no-such-sensor"}

Next ==
    \/ Tick
    \/ get_sensor_data
    \/ \E id \in RequestIds : get_specific_sensor(id)
    \/ get_alerts
    \/ get_dashboard_summary
    \/ \E id \in RequestIds : \E target \in Targets(id) : calibrate_sensor(id, target)

Spec == Init /\ [][Next]_vars

\* ------------------------------------------------------------ RAGService
\* the conversation id a client names in its requests, and no id at all
ClientIds == {<<"client", 1>>}

NoId == <<"none", 0>>

\* the ids requests can name: the client's and the generated ones
KnownIds == ClientIds \cup {<<"uuid", n>> : n \in 1..uuids}

\* Message contents are pairs <<kind, request>>, so that every text can be
\* told from every other one.
\* request.message of chat request r
Message(r) == <<"message", r>>

\* the fixed string _generate_rag_response returns when the LLM call raises:
\* "I apologize, but I'm experiencing technical difficulties. Please try again."
APOLOGY == <<"apology", 0>>

\* response.text of the LLM call of chat request r
LLMText(r) == <<"text", r>>

ChatMessage(role, content) == [role |-> role, content |-> content]

\* list.append put at the wrong end
PrependMessage(history, message) == <<message>> \o history

\* self.conversations[conversation_id].append(message)
AppendMessage(history, message) == Append(history, message)

\* self.conversations.get(conversation_id, [])
History(conversation_id) ==
    IF conversation_id \in DOMAIN conversations
    THEN conversations[conversation_id] ELSE << >>

\* the log of appends: what was appended for an id since its last clear
Appended(conversation_id) ==
    IF conversation_id \in DOMAIN appended
    THEN appended[conversation_id] ELSE << >>

Logged(conversation_id, message) ==
    [c \in DOMAIN appended \cup {conversation_id} |->
        IF c = conversation_id THEN Append(Appended(c), message) ELSE appended[c]]

\* chat_with_plantgpt up to the LLM call, where it is suspended: the id is
\* taken or generated, the conversation created, the user message appended
StartChat(r, request_id) ==
    /\ chats[r].pc = "idle"
    /\ \A q \in 1..(r - 1) : chats[q].pc # "idle"
    /\ LET conversation_id ==
               IF request_id = NoId THEN <<"uuid", uuids + 1>> ELSE request_id
           message == Message(r)
           user_message == ChatMessage("user", message)
       IN  /\ uuids' = IF request_id = NoId THEN uuids + 1 ELSE uuids
           /\ conversations' =
                 [c \in DOMAIN conversations \cup {conversation_id} |->
                     IF c = conversation_id
                     THEN AppendMessage(History(c), user_message)
                     ELSE conversations[c]]
           /\ appended' = Logged(conversation_id, user_message)
           /\ chats' = [chats EXCEPT ![r] =
                 [pc |-> "llm", conversation_id |-> conversation_id,
                  message |-> message]]
    /\ UNCHANGED history_reply
    /\ UNCHANGED <<sensorVars, aiVars, seriesVars, appVars>>

\* chat_with_plantgpt from the return of the LLM call: the text, or the fixed
\* apology when the call raised, is appended as the assistant message
FinishChat(r, outcome) ==
    /\ chats[r].pc = "llm"
    /\ LET conversation_id == chats[r].conversation_id
           response_text == IF outcome = "raise" THEN APOLOGY ELSE LLMText(r)
           assistant_message == ChatMessage("assistant", response_text)
       IN  IF conversation_id \in DOMAIN conversations
           THEN /\ conversations' =
                      [conversations EXCEPT ![conversation_id] =
                          AppendMessage(@, assistant_message)]
                /\ appended' = Logged(conversation_id, assistant_message)
                /\ chats' = [chats EXCEPT ![r] =
                      [pc |-> "done", conversation_id |-> conversation_id,
                       message |-> chats[r].message, outcome |-> outcome,
                       response |-> response_text]]
           ELSE \* self.conversations[conversation_id] raises KeyError
                /\ chats' = [chats EXCEPT ![r] =
                      [pc |-> "failed", conversation_id |-> conversation_id,
                       message |-> chats[r].message, outcome |-> outcome,
                       error |-> "KeyError"]]
                /\ UNCHANGED <<conversations, appended>>
    /\ UNCHANGED <<uuids, history_reply>>
    /\ UNCHANGED <<sensorVars, aiVars, seriesVars, appVars>>

get_conversation_history(conversation_id) ==
    /\ history_reply' = [op |-> "history", conversation_id |-> conversation_id,
                         history |-> History(conversation_id)]
    /\ UNCHANGED <<conversations, chats, uuids, appended>>
    /\ UNCHANGED <<sensorVars, aiVars, seriesVars, appVars>>

clear_conversation(conversation_id) ==
    /\ IF conversation_id \in DOMAIN conversations
       THEN conversations' =
               [c \in DOMAIN conversations \ {conversation_id} |-> conversations[c]]
       ELSE UNCHANGED conversations
    /\ appended' = [c \in DOMAIN appended |->
                       IF c = conversation_id THEN << >> ELSE appended[c]]
    /\ UNCHANGED <<chats, uuids, history_reply>>
    /\ UNCHANGED <<sensorVars, aiVars, seriesVars, appVars>>

\* the app of main.py: the routers and their services, no sensor store
InitRAG ==
    /\ variant = "main"
    /\ sensor_data_store = << >>
    /\ now = 0
    /\ polls = 0
    /\ calibrations = 0
    /\ response = NoResponse
    /\ RAGServiceInit
    /\ AgentServiceInit
    /\ rag_service = ServiceReady
    /\ handed = Handed(ServiceReady, TRUE)
    /\ StoresInit
    /\ text_model = "none"
    /\ series_limit = 0

NextRAG ==
    \/ \E r \in 1..MaxChats : \E id \in ClientIds \cup {NoId} : StartChat(r, id)
    \/ \E r \in 1..MaxChats : \E outcome \in {"text", "raise"} : FinishChat(r, outcome)
    \/ \E id \in KnownIds : get_conversation_history(id)
    \/ \E id \in KnownIds : clear_conversation(id)

SpecRAG == InitRAG /\ [][NextRAG]_vars

\* ------------------------------------------- simulation and mill series
\* bounds on the requests sent per series: a long run and a short one
LongRun == 102
ShortRun == 1

\* "Keep only last 100 points" and "Return last 20 points"
KeepPoints == 100
ShownPoints == 20

\* the n-th point generated for a series (its timestamp and random fields)
Point(series, n) == [series |-> series, n |-> n]

\* list[-k:]
LastPoints(list, k) == SubSeq(list, Max2(1, Len(list) - k + 1), Len(list))

\* the trim done with pop() instead of pop(0)
TrimmedNewest(list) ==
    IF Len(list) > KeepPoints THEN SubSeq(list, 1, Len(list) - 1) ELSE list

\* if len(store) > 100: store.pop(0)
Trimmed(list) == IF Len(list) > KeepPoints THEN Tail(list) ELSE list

\* GET /api/simulation
get_simulation_data ==
    /\ pending = NoCall
    /\ generated.simulation < series_limit
    /\ LET simulation_point == Point("simulation", generated.simulation + 1)
           kept == Trimmed(Append(simulation_data_store, simulation_point))
       IN  /\ simulation_data_store' = kept
           /\ response' = [op |-> "simulation", code |-> 200,
                           data |-> LastPoints(kept, ShownPoints),
                           latest |-> simulation_point]
    /\ generated' = [generated EXCEPT !.simulation = @ + 1]
    /\ UNCHANGED <<mill_data_store, alerts_store, series_limit>>
    /\ UNCHANGED <<appVars, ragVars, aiVars>>
    /\ UNCHANGED <<variant, sensor_data_store, now, polls, calibrations>>

\* GET /api/mill (main_simple_fixed, main_gemini_simple)
get_mill_data ==
    /\ variant # "updated"
    /\ pending = NoCall
    /\ generated.mill < series_limit
    /\ LET mill_point == Point("mill", generated.mill + 1)
           kept == Trimmed(Append(mill_data_store, mill_point))
       IN  /\ mill_data_store' = kept
           /\ response' = [op |-> "mill", code |-> 200,
                           data |-> LastPoints(kept, ShownPoints),
                           latest |-> mill_point]
    /\ generated' = [generated EXCEPT !.mill = @ + 1]
    /\ UNCHANGED <<simulation_data_store, alerts_store, series_limit>>
    /\ UNCHANGED <<appVars, ragVars, aiVars>>
    /\ UNCHANGED <<variant, sensor_data_store, now, polls, calibrations>>

\* an entry point right after start-up whose clients send a long run of
\* simulation and mill requests
InitSeries ==
    /\ variant \in Variants
    /\ sensor_data_store =
          generate_all_sensor_data(variant, [s \in SensorIds(variant) |-> <<0, 0>>])
    /\ now = 0
    /\ polls = 0
    /\ calibrations = 0
    /\ response = NoResponse
    /\ RAGServiceInit
    /\ AppInit
    /\ StoresInit
    /\ text_model = "none"
    /\ series_limit = LongRun

NextSeries ==
    \/ get_simulation_data
    \/ get_mill_data

SpecSeries == InitSeries /\ [][NextSeries]_vars

\* -------------------------------------- Gemini analysis, chat and agents
\* bound on the analysis, generate, chat and agent requests of a run
MaxRequests == 2

\* the entry points that configure a Gemini model
AIVariants == {"gemini_simple", "updated"}

\* the empty string
Empty == <<"", 0>>

\* "AI analysis unavailable - Gemini API key not configured"
SENTINEL == <<"unavailable", 0>>

\* f"AI analysis error: {str(e)}"
AIError == <<"error", 0>>

\* request_data["prompt"] of request n
Prompt(n) == <<"prompt", n>>

\* the agent types requests name: one of the agents dict and an unknown one
AgentTypes == {"kiln_optimizer", "no-such-agent"}

agents ==
    {"kiln_optimizer", "mill_optimizer", "quality_controller", "fuel_optimizer",
     "maintenance_planner"}

\* f"conv_{int(time.time())}"
DefaultConversationId(t) == <<"conv", t>>

\* conversation_history[conversation_id].extend([user, assistant])
Extended(history, conversation_id, message, analysis) ==
    [c \in DOMAIN history \cup {conversation_id} |->
        (IF c \in DOMAIN history THEN history[c] ELSE << >>)
        \o (IF c = conversation_id
            THEN << ChatMessage("user", message), ChatMessage("assistant", analysis) >>
            ELSE << >>)]

\* the rest of a handler from the return of analyze_with_gemini: call holds
\* the handler's locals and analysis the text returned
Complete(call, analysis) ==
    /\ conversation_history' =
          IF call.op = "chat"
          THEN Extended(conversation_history, call.conversation_id,
                        call.message, analysis)
          ELSE conversation_history
    /\ agent_tasks' =
          IF call.op = "agent"
          THEN LET task_id == <<call.agent_type, now>>
                   result  == [agent_type |-> call.agent_type,
                               analysis |-> analysis, status |-> "completed"]
               IN  [t \in DOMAIN agent_tasks \cup {task_id} |->
                       IF t = task_id THEN result ELSE agent_tasks[t]]
          ELSE agent_tasks
    /\ response' =
          CASE call.op = "analyze" ->
                 [op |-> "analyze", code |-> 200, input |-> call.kind,
                  text |-> analysis]
            [] call.op = "generate" ->
                 [op |-> "generate", code |-> 200, input |-> call.prompt,
                  text |-> analysis]
            [] call.op = "chat" ->
                 [op |-> "chat", code |-> 200, input |-> call.message,
                  request_id |-> call.request_id,
                  conversation_id |-> call.conversation_id,
                  response |-> analysis]
            [] call.op = "agent" ->
                 [op |-> "agent", code |-> 200, input |-> call.agent_type,
                  task_id |-> <<call.agent_type, now>>,
                  result |-> [agent_type |-> call.agent_type,
                              analysis |-> analysis, status |-> "completed"]]

\* analyze_with_gemini without its check of the model
analyze_with_gemini_unchecked(call) ==
    /\ pending' = call
    /\ llm_calls' = llm_calls + 1
    /\ UNCHANGED <<response, conversation_history, agent_tasks>>

\* analyze_with_gemini up to its return or to its generate_content call: with
\* no model it returns the sentinel at once; otherwise generate_content is
\* called in the coroutine itself and the handler stands at that call
analyze_with_gemini(call) ==
    IF text_model = "none"
    THEN /\ Complete(call, SENTINEL)
         /\ UNCHANGED <<pending, llm_calls>>
    ELSE /\ pending' = call
         /\ llm_calls' = llm_calls + 1
         /\ UNCHANGED <<response, conversation_history, agent_tasks>>

\* a handler that raised HTTPException(status) inside its try block: the
\* except Exception clause catches it and raises HTTPException(500)
Rejected(op, status, input) ==
    /\ response' = [op |-> op, code |-> 500, raised |-> status, input |-> input]
    /\ UNCHANGED <<pending, llm_calls, conversation_history, agent_tasks>>

\* the draws sampled for the refresh a handler does on its way: every
\* explored sensor draws 0 or the top of its noise range
UpwardDraws(v) ==
    { d \in DrawSet(v) :
        \A s \in Jittered(v) :
            d[s] \in {<<0, 0>>, <<Variation(SENSORS(v)[s]), 0>>} }

\* current_sensors = await get_sensor_data()
AwaitSensorData ==
    /\ polls < MaxPolls
    /\ \E draw \in UpwardDraws(variant) :
          sensor_data_store' = Refreshed(variant, sensor_data_store, draw)
    /\ polls' = polls + 1

\* the kiln, mill and equipment analysis handlers: refresh, prompt, analysis
AnalysisHandler(kind) ==
    /\ variant \in AIVariants
    /\ pending = NoCall
    /\ requests < MaxRequests
    /\ requests' = requests + 1
    /\ AwaitSensorData
    /\ analyze_with_gemini([op |-> "analyze", kind |-> kind, n |-> requests + 1])
    /\ UNCHANGED <<appVars, ragVars, seriesVars>>
    /\ UNCHANGED <<variant, now, calibrations, text_model>>

\* POST /api/analyze/kiln
analyze_kiln == AnalysisHandler("kiln")

\* POST /api/analyze/mill
analyze_mill == AnalysisHandler("mill")

\* POST /api/v1/ai/analyze-equipment (main_updated)
analyze_equipment_monitoring ==
    /\ variant = "updated"
    /\ AnalysisHandler("equipment")

\* POST /api/v1/gemini/generate
gemini_generate_v1(prompt) ==
    /\ variant \in AIVariants
    /\ pending = NoCall
    /\ requests < MaxRequests
    /\ requests' = requests + 1
    /\ IF prompt = Empty
       THEN Rejected("generate", 400, prompt)
       ELSE analyze_with_gemini([op |-> "generate", prompt |-> prompt,
                                 n |-> requests + 1])
    /\ UNCHANGED <<appVars, ragVars, seriesVars>>
    /\ UNCHANGED <<variant, sensor_data_store, now, polls, calibrations, text_model>>

\* POST /api/v1/plantgpt/chat (main_updated)
plantgpt_chat(message, request_id) ==
    /\ variant = "updated"
    /\ pending = NoCall
    /\ requests < MaxRequests
    /\ requests' = requests + 1
    /\ LET conversation_id ==
               IF request_id = NoId THEN DefaultConversationId(now) ELSE request_id
       IN  IF message = Empty
           THEN Rejected("chat", 400, message)
           ELSE analyze_with_gemini([op |-> "chat", message |-> message,
                                     request_id |-> request_id,
                                     conversation_id |-> conversation_id,
                                     n |-> requests + 1])
    /\ UNCHANGED <<appVars, ragVars, seriesVars>>
    /\ UNCHANGED <<variant, sensor_data_store, now, polls, calibrations, text_model>>

\* POST /api/agents/{agent_type}/execute (main_updated)
execute_agent_task(agent_type, include_sensors) ==
    /\ variant = "updated"
    /\ pending = NoCall
    /\ requests < MaxRequests
    /\ requests' = requests + 1
    /\ IF agent_type \notin agents
       THEN /\ Rejected("agent", 404, agent_type)
            /\ UNCHANGED <<sensor_data_store, polls>>
       ELSE /\ IF include_sensors THEN AwaitSensorData
                                  ELSE UNCHANGED <<sensor_data_store, polls>>
            /\ analyze_with_gemini([op |-> "agent", agent_type |-> agent_type,
                                    n |-> requests + 1])
    /\ UNCHANGED <<appVars, ragVars, seriesVars>>
    /\ UNCHANGED <<variant, now, calibrations, text_model>>

\* generate_content returns its text or raises (the error text is returned in
\* its place), and the handler standing at the call runs to its end
generate_content_returns(outcome) ==
    /\ pending # NoCall
    /\ Complete(pending, IF outcome = "text" THEN LLMText(pending.n) ELSE AIError)
    /\ pending' = NoCall
    /\ UNCHANGED <<appVars, ragVars, seriesVars, sensorVarsButResponse>>
    /\ UNCHANGED <<text_model, llm_calls, requests>>

\* an entry point right after start-up, with or without GEMINI_API_KEY
InitAI ==
    /\ variant \in Variants
    /\ sensor_data_store =
          generate_all_sensor_data(variant, [s \in SensorIds(variant) |-> <<0, 0>>])
    /\ now = 0
    /\ polls = 0
    /\ calibrations = 0
    /\ response = NoResponse
    /\ RAGServiceInit
    /\ AppInit
    /\ StoresInit
    /\ text_model \in IF variant \in AIVariants THEN {"none", "gemini-2.0-flash"}
                                                ELSE {"none"}
    /\ series_limit = ShortRun

NextAI ==
    \/ Tick
    \/ analyze_kiln
    \/ analyze_mill
    \/ analyze_equipment_monitoring
    \/ \E prompt \in {Empty, Prompt(requests + 1)} : gemini_generate_v1(prompt)
    \/ \E message \in {Empty, Message(requests + 1)} :
          \E id \in ClientIds \cup {NoId} : plantgpt_chat(message, id)
    \/ \E agent_type \in AgentTypes : \E include_sensors \in BOOLEAN :
          execute_agent_task(agent_type, include_sensors)
    \/ \E outcome \in {"text", "raise"} : generate_content_returns(outcome)
    \/ get_alerts
    \/ get_dashboard_summary
    \/ get_simulation_data
    \/ get_mill_data

SpecAI == InitAI /\ [][NextAI]_vars

\* ================================================================ claims
\* helpers of the claims: the alerts of a response that are about sensor s
AlertsAbout(alerts, s) == {i \in 1..Len(alerts) : alerts[i].sensor = s}

\* the stored value of s is above 1.15 * optimal or below 0.85 * optimal
OutsideBand(s) ==
    LET value == sensor_data_store[s].value
        config == SENSORS(variant)[s]
    IN  100 * value > 115 * config.optimal \/ 100 * value < 85 * config.optimal

\* C1: every stored reading's value lies inside the clamp band of the entry
\* point: [min, max] in main_simple_fixed and main_gemini_simple,
\* [0.8 * min, 1.2 * max] in main_updated.
ValueInClampBand ==
    \A s \in SensorIds(variant) :
        LET value  == sensor_data_store[s].value
            config == SENSORS(variant)[s]
        IN  IF variant = "updated"
            THEN 10 * value >= 8 * config.min /\ 10 * value <= 12 * config.max
            ELSE value >= config.min /\ value <= config.max

\* C1 witness: polls of main_updated have driven a sensor onto the edge of its
\* relaxed band, where only the clamp keeps it inside
ClampBandEdgeReached ==
    /\ variant = "updated"
    /\ polls > 0
    /\ 10 * sensor_data_store["vibration"].value = 8 * SENSORS_updated["vibration"].min

\* the status the three-way partition of the claim assigns to a value
PartitionStatus(config, value) ==
    IF value > config.critical THEN "critical"
    ELSE IF 100 * Abs(value - config.optimal) > 15 * config.optimal THEN "warning"
    ELSE "normal"

\* C2: in main_updated the status of every reading is the one the three-way
\* partition (critical / warning / normal) assigns to the reading's own value
\* field.
StatusPartitionsValueField ==
    variant = "updated" =>
        \A s \in SensorIds(variant) :
            sensor_data_store[s].status =
                PartitionStatus(SENSORS_updated[s], sensor_data_store[s].value)

\* C3 as stated: GET /api/alerts returns an alert for a sensor iff its value is
\* outside [0.85, 1.15] * optimal, at most one per sensor, and that alert is
\* critical exactly when the value also exceeds the critical bound.
AlertsIffOutsideBand ==
    response.op = "alerts" =>
        \A s \in SensorIds(variant) :
            LET mine == AlertsAbout(response.body.alerts, s)
                over == /\ variant = "updated"
                        /\ sensor_data_store[s].value > SENSORS_updated[s].critical
            IN  /\ Cardinality(mine) <= 1
                /\ (mine # {}) <=> OutsideBand(s)
                /\ \A i \in mine :
                      (response.body.alerts[i].severity = "critical") <=> over

\* C3 amended: GET /api/alerts returns an alert for a sensor iff, in
\* main_updated, the status of its reading is warning or critical (a value
\* above the critical bound makes the status critical whether or not it is
\* outside [0.85, 1.15] * optimal) and, in the other entry points, iff its
\* stored value is outside [0.85, 1.15] * optimal; at most one alert per
\* sensor; the alert is critical exactly when the status is critical, and a
\* stored value above the critical bound always yields a critical alert.
AlertsFollowStatus ==
    response.op = "alerts" =>
        \A s \in SensorIds(variant) :
            LET mine   == AlertsAbout(response.body.alerts, s)
                status == sensor_data_store[s].status
            IN  /\ Cardinality(mine) <= 1
                /\ (mine # {}) <=>
                      IF variant = "updated" THEN status \in {"warning", "critical"}
                                             ELSE OutsideBand(s)
                /\ \A i \in mine :
                      (response.body.alerts[i].severity = "critical") <=>
                          (variant = "updated" /\ status = "critical")
                /\ (variant = "updated"
                      /\ sensor_data_store[s].value > SENSORS_updated[s].critical)
                   => \E i \in mine : response.body.alerts[i].severity = "critical"

\* C3 witness: a response of main_updated with a critical and a warning alert
CriticalAndWarningAlert ==
    /\ variant = "updated"
    /\ response.op = "alerts"
    /\ \E i, j \in 1..Len(response.body.alerts) :
          /\ response.body.alerts[i].severity = "critical"
          /\ response.body.alerts[j].severity = "medium"

\* every sensor holds the reading generate_sensor_value gives for its optimal
\* value
AllAtOptimal ==
    \A s \in SensorIds(variant) :
        sensor_data_store[s] =
            generate_sensor_value(variant, s, SENSORS(variant)[s].optimal, 0, 0)

\* C4: when every sensor reads its optimal value, GET /api/alerts returns an
\* empty alert list.
NoAlertsAtOptimal ==
    (response.op = "alerts" /\ AllAtOptimal) => Len(response.body.alerts) = 0

\* C5: two invocations of GET /api/alerts never return the same alert id: the
\* alerts just returned share no id with the alerts an invocation served in
\* the current state returns.
AlertIdsNeverRepeat ==
    response.op = "alerts" =>
        LET again == AlertList(variant, sensor_data_store, now, 1)
        IN  \A i \in 1..Len(response.body.alerts) : \A j \in 1..Len(again) :
                response.body.alerts[i].id # again[j].id

\* C6 as stated: overall_efficiency is exactly (mill-eff + load) / 2.
EfficiencyIsExactMean ==
    response.op = "summary" =>
        2 * response.summary.overall_efficiency =
            sensor_data_store["mill-eff"].value + sensor_data_store["load"].value

\* C6 amended: overall_efficiency is (mill-eff + load) / 2 rounded to one
\* decimal: a multiple of 0.1 at most 0.05 away from the mean (so 78 and 87
\* give 82.5).
EfficiencyIsRoundedMean ==
    response.op = "summary" =>
        LET sum == sensor_data_store["mill-eff"].value + sensor_data_store["load"].value
            eff == response.summary.overall_efficiency
        IN  /\ eff % 100 = 0
            /\ Abs(2 * eff - sum) <= 100

\* C6 witness: a summary of a store whose mean has a second decimal
SummaryOfUnevenMean ==
    /\ response.op = "summary"
    /\ (sensor_data_store["mill-eff"].value + sensor_data_store["load"].value) % 200 # 0

\* C7: an accepted calibration stores and returns a reading whose value is
\* target_value.
CalibrationReflectsTarget ==
    (response.op = "calibrate" /\ response.code = 200) =>
        /\ response.data.value = response.target_value
        /\ sensor_data_store[response.sensor_id].value = response.target_value

\* what the claim C8 says of the status codes
RejectionCodes ==
    /\ response.op = "calibrate" =>
          /\ (response.code = 404) <=> (response.sensor_id \notin SensorIds(variant))
          /\ (response.code = 400) <=>
                /\ response.sensor_id \in SensorIds(variant)
                /\ \/ response.target_value < SENSORS(variant)[response.sensor_id].min
                   \/ response.target_value > SENSORS(variant)[response.sensor_id].max
    /\ response.op = "sensor" =>
          ((response.code = 404) <=> (response.sensor_id \notin SensorIds(variant)))

\* C8: a calibration of an unknown sensor fails with 404 and one with a target
\* below min or above max with 400, GET /api/sensors/{id} of an unknown id
\* fails with 404, and a request that fails leaves the sensor store as it was.
RejectedRequestsKeepStore ==
    /\ []RejectionCodes
    /\ [][ (response'.code \in {400, 404}) =>
              sensor_data_store' = sensor_data_store ]_vars

\* C8 witness: a calibration was rejected for its target after the store had
\* been calibrated
CalibrationRejected ==
    /\ response.op = "calibrate"
    /\ response.code = 400
    /\ calibrations > 0

\* the alerts of the current store
CurrentAlerts == AlertList(variant, sensor_data_store, now, 1)

AnyCritical(alerts) == \E i \in 1..Len(alerts) : alerts[i].severity = "critical"

\* C9 as stated: system_status is critical if a critical alert exists, else
\* warning if more than two alerts exist, else normal, in every entry point.
SystemStatusNormalNamed ==
    response.op = "summary" =>
        response.summary.system_status =
            IF AnyCritical(CurrentAlerts) THEN "critical"
            ELSE IF Len(CurrentAlerts) > 2 THEN "warning"
            ELSE "normal"

\* C9 amended: system_status is critical if a critical alert exists, else
\* warning if more than two alerts exist, else normal in main_updated and
\* operational in main_simple_fixed and main_gemini_simple.
SystemStatusByAlertCount ==
    response.op = "summary" =>
        response.summary.system_status =
            IF AnyCritical(CurrentAlerts) THEN "critical"
            ELSE IF Len(CurrentAlerts) > 2 THEN "warning"
            ELSE IF variant = "updated" THEN "normal"
            ELSE "operational"

\* C9 witness: a summary reporting warning for three alerts
SummaryWarning ==
    /\ response.op = "summary"
    /\ response.summary.system_status = "warning"
    /\ Len(CurrentAlerts) = 3

IsPrefix(a, b) == Len(a) <= Len(b) /\ \A i \in 1..Len(a) : a[i] = b[i]

\* C10: the history of every conversation id is append-only and keeps the
\* order of the appends: it is at every time the sequence of the messages
\* appended since the id's last clear (empty right after a clear), a step that
\* does not clear the id leaves the earlier history a prefix of the later one,
\* and get_conversation_history returns exactly that sequence.
HistoryIsAppendLog ==
    /\ [](\A c \in KnownIds : History(c) = Appended(c))
    /\ [][ \A c \in DOMAIN conversations \cap DOMAIN conversations' :
              IsPrefix(conversations[c], conversations'[c]) ]_vars
    /\ [][ (history_reply' # history_reply) =>
              history_reply'.history = Appended(history_reply'.conversation_id) ]_vars

\* C10 witness: the first request's exchange was appended and cleared, and
\* get_conversation_history then returned exactly the two messages of the
\* second request's exchange, in order
HistoryAfterClearAndAppends ==
    /\ chats[1].pc = "done"
    /\ chats[1].conversation_id = <<"client", 1>>
    /\ history_reply.op = "history"
    /\ history_reply.conversation_id = <<"client", 1>>
    /\ history_reply.history = << ChatMessage("user", Message(2)),
                                  ChatMessage("assistant", LLMText(2)) >>

\* the points a series holds after n requests: the last min(n, 100) generated
\* ones, oldest first
ExpectedPoints(series, n) ==
    [i \in 1..Min2(n, KeepPoints) |-> Point(series, n - Min2(n, KeepPoints) + i)]

\* the data field after n requests: the last min(n, 20) generated points
ExpectedData(series, n) ==
    [i \in 1..Min2(n, ShownPoints) |-> Point(series, n - Min2(n, ShownPoints) + i)]

\* C12: after n GET /api/simulation (GET /api/mill) requests the store holds
\* exactly the min(n, 100) most recently generated points in generation order,
\* and the response's data field is the min(n, 20) most recent points, the
\* point returned as latest being the last of them.
SeriesAreRingBuffers ==
    /\ simulation_data_store = ExpectedPoints("simulation", generated.simulation)
    /\ mill_data_store = ExpectedPoints("mill", generated.mill)
    /\ response.op \in {"simulation", "mill"} =>
          /\ response.data = ExpectedData(response.op, generated[response.op])
          /\ response.latest = response.data[Len(response.data)]
          /\ response.latest = Point(response.op, generated[response.op])

\* C12 witness: both series have been trimmed, the oldest points are gone and
\* a response shows 20 of the 100 points kept
SeriesTrimmed ==
    /\ generated.simulation > KeepPoints
    /\ generated.mill > KeepPoints
    /\ response.op = "mill"
    /\ Len(mill_data_store) = KeepPoints
    /\ mill_data_store[1] # Point("mill", 1)
    /\ Len(response.data) = ShownPoints

\* C11: a chat request that carries no conversation_id is stored under a fresh
\* id, different from the id of every other such request: the history under
\* the id it was given holds its own exchange and no message of another one.
ChatWithoutIdGetsFreshId ==
    (response.op = "chat" /\ response.code = 200 /\ response.request_id = NoId) =>
        conversation_history[response.conversation_id] =
            << ChatMessage("user", response.input),
               ChatMessage("assistant", response.response) >>

\* C13: a chat request whose LLM call raised still completes with a response
\* that carries the fixed apology string, and the history of its conversation
\* holds its user message followed by an assistant message with that string.
ApologyWhenLLMRaises ==
    \A r \in 1..MaxChats :
        (chats[r].pc \in {"done", "failed"} /\ chats[r].outcome = "raise") =>
            /\ chats[r].pc = "done"
            /\ chats[r].response = APOLOGY
            /\ LET history == History(chats[r].conversation_id)
               IN  \A i \in 1..Len(history) :
                      history[i] = ChatMessage("user", chats[r].message) =>
                          \E j \in (i + 1)..Len(history) :
                              history[j] = ChatMessage("assistant", APOLOGY)

\* the text a response of an analysis, generate or chat request carries
TextOf(reply) == IF reply.op = "chat" THEN reply.response ELSE reply.text

\* with no GEMINI_API_KEY no LLM call is issued or under way, and the last
\* response, when it answers one of the requests told by Asked, is a success
\* carrying the sentinel text
SentinelFor(Asked(_)) ==
    text_model = "none" =>
        /\ llm_calls = 0
        /\ pending = NoCall
        /\ Asked(response) => (response.code = 200 /\ TextOf(response) = SENTINEL)

AnyAnalysisRequest(reply) ==
    \/ reply.op \in {"analyze", "chat"}
    \/ reply.op = "generate" /\ reply.input # Empty

ValidAnalysisRequest(reply) ==
    \/ reply.op = "analyze"
    \/ reply.op \in {"generate", "chat"} /\ reply.input # Empty

\* C14 as stated: when GEMINI_API_KEY is not set the entry points start, and
\* every kiln, mill, equipment and chat request and every generate request
\* with a non-empty prompt succeeds with the sentinel text, no LLM call being
\* issued.
SentinelForEveryChat == SentinelFor(AnyAnalysisRequest)

\* C14 amended: when GEMINI_API_KEY is not set the entry points start, and
\* every kiln, mill and equipment request, every generate request with a
\* non-empty prompt and every chat request with a non-empty message succeeds
\* with the sentinel text, no LLM call being issued.
SentinelWithoutKey == SentinelFor(ValidAnalysisRequest)

\* C14 witness: main_updated without a key has answered an analysis request
\* and then a chat with the sentinel
ChatAnsweredWithoutKey ==
    /\ variant = "updated"
    /\ text_model = "none"
    /\ requests = 2
    /\ polls = 1
    /\ response.op = "chat"
    /\ response.code = 200
    /\ response.response = SENTINEL

\* C15: in main_updated a request rejected by the handler's own validation
\* (empty prompt: 400, empty message: 400, unknown agent type: 404) reaches
\* the client with the status the handler raised.
ValidationStatusReachesClient ==
    (variant = "updated" /\ response.op \in {"generate", "chat", "agent"}) =>
        /\ (response.op = "generate" /\ response.input = Empty) => response.code = 400
        /\ (response.op = "chat" /\ response.input = Empty) => response.code = 400
        /\ (response.op = "agent" /\ response.input \notin agents) => response.code = 404

\* C16: the LLM call is a suspension point of the event loop: while the call
\* of one request is outstanding, the handler of another request can run.
LLMCallLeavesLoopFree ==
    pending # NoCall => ENABLED (get_alerts \/ get_dashboard_summary)

\* C17: GET /api/alerts and GET /api/dashboard/summary are side-effect free:
\* the step that serves either leaves the sensor store, the simulation and
\* mill buffers, alerts_store and the conversation maps as they were.
AlertsAndSummaryChangeNoStore ==
    [][ (response' # response /\ response'.op \in {"alerts", "summary"}) =>
            UNCHANGED <<sensor_data_store, simulation_data_store, mill_data_store,
                        alerts_store, conversation_history, conversations,
                        agent_tasks>> ]_vars

\* C17 witness: alerts were served by main_updated while the sensor store had
\* been refreshed and the conversation map, the task map and the simulation
\* buffer were not empty
AlertsServedOverFilledStores ==
    /\ variant = "updated"
    /\ response.op = "alerts"
    /\ Len(response.body.alerts) > 0
    /\ polls > 0
    /\ DOMAIN conversation_history # {}
    /\ DOMAIN agent_tasks # {}
    /\ Len(simulation_data_store) > 0

\* C18 as stated: every endpoint that returns sensor readings regenerates
\* them: GET /api/sensors regenerates the reading of every catalog sensor and
\* GET /api/sensors/{id} of a known id returns a reading regenerated by that
\* request.
EveryReadRegenerates ==
    /\ response.op = "sensors" =>
          response.regenerated = Cardinality(SensorIds(variant))
    /\ (response.op = "sensor" /\ response.code = 200) => response.regenerated > 0

\* C18 amended: GET /api/sensors replaces the reading of every catalog sensor
\* by one random-walk step from its previous value; GET /api/sensors/{id} of
\* a known id regenerates nothing: it returns the stored reading, the one left
\* by the last request that wrote it, and leaves the store as it was.
OnlyPollRegenerates ==
    /\ [](/\ response.op = "sensors" =>
               response.regenerated = Cardinality(SensorIds(variant))
          /\ (response.op = "sensor" /\ response.code = 200) =>
               /\ response.regenerated = 0
               /\ response.data = sensor_data_store[response.sensor_id])
    /\ [][ polls' = polls + 1 =>
              \A s \in SensorIds(variant) :
                 \E d \in SensorDraws(variant, s) :
                    sensor_data_store'[s] =
                       generate_sensor_value(variant, s, sensor_data_store[s].value,
                                             d[1], d[2]) ]_vars
    /\ [][ (response' # response /\ response'.op = "sensor") =>
              sensor_data_store' = sensor_data_store ]_vars

\* C18 witness: a single sensor was read after polls had moved it away from
\* the reading of start-up, and the reading returned is the stored one
SensorReadAfterPolls ==
    /\ response.op = "sensor"
    /\ response.code = 200
    /\ response.sensor_id = "load"
    /\ polls > 1
    /\ response.data.value = SENSORS(variant)["load"].max

\* the (sensor, type, severity) triples of a list of alerts
Triples(alerts) ==
    { <<alerts[i].sensor, alerts[i].type, alerts[i].severity>> : i \in 1..Len(alerts) }

Unrounded(value) == {u \in (value - 5)..(value + 5) : RoundTo(u, 10) = value}

\* the trend by the 10% rule: up above 1.1 * optimal, down below
\* 0.9 * optimal, stable otherwise
TrendByTenPercent(config, u) ==
    IF 10 * u > 11 * config.optimal THEN "up"
    ELSE IF 10 * u < 9 * config.optimal THEN "down"
    ELSE "stable"

\* stable when |u - optimal| is less than half of 0.05 * (max - min)
Smoothed(config, u, trend) ==
    IF 2 * Abs(u - config.optimal) < Variation(config) THEN "stable" ELSE trend

\* C20 as stated: the trend of every reading is up if value > 1.1 * optimal,
\* down if value < 0.9 * optimal and stable otherwise, except that it is
\* stable whenever |value - optimal| is less than half the noise magnitude
\* (value being the value before its rounding to two decimals).
TrendFollowsTenPercentRule ==
    \A s \in SensorIds(variant) :
        \E u \in Unrounded(sensor_data_store[s].value) :
            sensor_data_store[s].trend =
                Smoothed(SENSORS(variant)[s], u,
                         TrendByTenPercent(SENSORS(variant)[s], u))

\* C20 amended: in main_simple_fixed and main_gemini_simple the trend is up if
\* value > 1.1 * optimal, down if value < 0.9 * optimal and stable otherwise;
\* in main_updated it is up if value > critical or value > 1.15 * optimal,
\* down if value < 0.85 * optimal and stable otherwise, except that it is
\* stable whenever |value - optimal| is less than half the noise magnitude
\* (value being the value before its rounding to two decimals).
TrendFollowsEntryPointRule ==
    \A s \in SensorIds(variant) :
        \E u \in Unrounded(sensor_data_store[s].value) :
            LET config == SENSORS(variant)[s]
            IN  sensor_data_store[s].trend =
                   IF variant = "updated"
                   THEN Smoothed(config, u,
                           IF u > config.critical \/ 100 * u > 115 * config.optimal
                           THEN "up"
                           ELSE IF 100 * u < 85 * config.optimal THEN "down"
                           ELSE "stable")
                   ELSE TrendByTenPercent(config, u)

\* C20 witness: readings of main_updated with each trend: co-level up above
\* 1.15 * optimal, vibration down below 0.85 * optimal, and mill-eff stable
\* by the half-noise rule although above its critical bound
EachTrendReached ==
    /\ variant = "updated"
    /\ polls > 0
    /\ sensor_data_store["co-level"].trend = "up"
    /\ sensor_data_store["vibration"].trend = "down"
    /\ sensor_data_store["mill-eff"].trend = "stable"
    /\ sensor_data_store["mill-eff"].value > SENSORS_updated["mill-eff"].critical

\* C21 as stated: in main_simple_fixed and main_gemini_simple a reading has
\* status warning iff its value deviates from optimal by more than 15% of
\* optimal and normal otherwise, so that a reading has status warning exactly
\* when GET /api/alerts emits an alert for its sensor.
SimpleStatusIsFifteenPercentBand ==
    variant # "updated" =>
        \A s \in SensorIds(variant) :
            /\ \E u \in Unrounded(sensor_data_store[s].value) :
                  sensor_data_store[s].status =
                     IF 100 * Abs(u - SENSORS_simple[s].optimal)
                           > 15 * SENSORS_simple[s].optimal
                     THEN "warning" ELSE "normal"
            /\ response.op = "alerts" =>
                  ((sensor_data_store[s].status = "warning")
                      <=> (AlertsAbout(response.body.alerts, s) # {}))

\* C21 amended: in main_simple_fixed and main_gemini_simple a reading has
\* status normal iff its value (before rounding) is less than the noise
\* magnitude 0.05 * (max - min) away from optimal, and warning otherwise;
\* GET /api/alerts emits an alert for a sensor only if its reading has status
\* warning, but a reading with status warning need not have an alert.
SimpleStatusIsNoiseBand ==
    variant # "updated" =>
        \A s \in SensorIds(variant) :
            /\ \E u \in Unrounded(sensor_data_store[s].value) :
                  sensor_data_store[s].status =
                     IF Abs(u - SENSORS_simple[s].optimal) < Variation(SENSORS_simple[s])
                     THEN "normal" ELSE "warning"
            /\ response.op = "alerts" =>
                  ((AlertsAbout(response.body.alerts, s) # {})
                      => sensor_data_store[s].status = "warning")

\* C21 witness: alerts were served while load had status warning inside the
\* 15% band, so without an alert, after polls of the store
WarningWithoutAlert ==
    /\ variant # "updated"
    /\ response.op = "alerts"
    /\ polls > 1
    /\ sensor_data_store["load"].status = "warning"
    /\ ~OutsideBand("load")
    /\ AlertsAbout(response.body.alerts, "load") = {}

\* the move of sensor s in a step, in thousandths
Moved(s) == Abs(sensor_data_store'[s].value - sensor_data_store[s].value)

\* half a unit of the second decimal: what round(value, 2) can add to a move
HalfCent == RoundTo(DRIFT, 10) \div 20

\* C22 as stated: in every entry point a poll moves the stored value of every
\* sensor by at most the noise magnitude 0.05 * (max - min), up to the
\* rounding of the stored value to two decimals.
PollMovesAtMostNoise ==
    [][ polls' = polls + 1 =>
           \A s \in SensorIds(variant) :
              Moved(s) <= Variation(SENSORS(variant)[s]) + HalfCent ]_vars

\* C22 amended: a poll moves the stored value of every sensor by at most
\* 0.05 * (max - min) in main_simple_fixed and main_gemini_simple and by at
\* most 0.05 * (max - min) + 0.1 in main_updated, which adds a drift drawn
\* from [-0.1, 0.1] to the noise (up to the rounding to two decimals).
PollMovesAtMostNoiseAndDrift ==
    [][ polls' = polls + 1 =>
           \A s \in SensorIds(variant) :
              Moved(s) <= Variation(SENSORS(variant)[s]) + HalfCent
                          + (IF variant = "updated" THEN DRIFT ELSE 0) ]_vars

\* C22 witness: the first poll of main_updated has moved vibration by the
\* whole of noise plus drift (up to rounding), as start-up had done from the
\* optimal value
FullStepTaken ==
    /\ variant = "updated"
    /\ polls = 1
    /\ response.op = "sensors"
    /\ sensor_data_store["vibration"].value <=
          SENSORS_updated["vibration"].optimal
             - 2 * (Variation(SENSORS_updated["vibration"]) + DRIFT - HalfCent)

\* ------------------------------------- AgentService and get_rag_service
\* the task types the clients name: one of agent_mapping, one it lacks
TaskTypes == {"kiln_analysis", "custom_analysis"}

\* the agents AgentService.initialize registers
AgentService_agents ==
    {"kiln_optimizer", "mill_optimizer", "quality_controller", "fuel_optimizer",
     "maintenance_planner"}

agent_mapping ==
    [t \in {"kiln_analysis", "temperature_optimization"} |-> "kiln_optimizer"] @@
    [t \in {"mill_analysis", "grinding_optimization"} |-> "mill_optimizer"] @@
    [t \in {"quality_analysis", "blaine_control", "strength_prediction"} |->
        "quality_controller"] @@
    [t \in {"fuel_optimization", "tsr_optimization"} |-> "fuel_optimizer"] @@
    [t \in {"maintenance_planning"} |-> "maintenance_planner"]

\* _select_agent: the agent of the task type, or "None"
select_agent(task_type) ==
    IF task_type \in DOMAIN agent_mapping
          /\ agent_mapping[task_type] \in AgentService_agents
    THEN agent_mapping[task_type] ELSE "None"

\* str(uuid.uuid4()) of the n-th task created, and an id no task has
TaskId(n) == <<"task", n>>

UnknownTaskId == TaskId(0)

CreatedIds == DOMAIN task_objects

\* create_task: a new AgentTask with status pending, put in active_tasks
create_task(task_type) ==
    /\ Cardinality(CreatedIds) < MaxTasks
    /\ LET task_id == TaskId(Cardinality(CreatedIds) + 1)
           task == [task_id |-> task_id, task_type |-> task_type,
                    status |-> "pending"]
       IN  /\ task_objects' =
                 [t \in CreatedIds \cup {task_id} |->
                     IF t = task_id THEN task ELSE task_objects[t]]
           /\ active_tasks' = active_tasks \cup {task_id}
    /\ UNCHANGED <<task_history, executions, status_reply, rag_service, handed>>
    /\ UNCHANGED <<sensorVars, ragVars, aiVars, seriesVars>>

\* execute_task raised ValueError, which the router turns into a 404
Refused(task_id) ==
    [pc |-> "rejected", task_id |-> task_id, error |-> "ValueError",
     code |-> 404]

\* execute_task up to the agent run, where it is suspended: the task is
\* looked up and set running, then its agent selected
execute_task(e, task_id) ==
    /\ executions[e].pc = "idle"
    /\ \A q \in 1..(e - 1) : executions[q].pc # "idle"
    /\ IF task_id \notin active_tasks
       THEN /\ executions' = [executions EXCEPT ![e] = Refused(task_id)]
            /\ UNCHANGED task_objects
       ELSE LET agent == select_agent(task_objects[task_id].task_type)
            IN  /\ task_objects' =
                      [task_objects EXCEPT ![task_id].status = "running"]
                /\ executions' = [executions EXCEPT ![e] =
                      IF agent = "None" THEN Refused(task_id)
                      ELSE [pc |-> "agent", task_id |-> task_id,
                            agent |-> agent]]
    /\ UNCHANGED <<active_tasks, task_history, status_reply, rag_service, handed>>
    /\ UNCHANGED <<sensorVars, ragVars, aiVars, seriesVars>>

\* execute_task from the return of CementPlantAgent.execute_task, whose
\* response has status completed, or failed when the agent run raised: the
\* status is copied to the task, the task appended to the history and
\* deleted from active_tasks
agent_run_returns(e, status) ==
    /\ executions[e].pc = "agent"
    /\ LET task_id == executions[e].task_id
       IN  /\ task_objects' = [task_objects EXCEPT ![task_id].status = status]
           /\ task_history' = Append(task_history, task_id)
           /\ IF task_id \in active_tasks
              THEN /\ active_tasks' = active_tasks \ {task_id}
                   /\ executions' = [executions EXCEPT ![e] =
                         [pc |-> "returned", task_id |-> task_id,
                          status |-> status, code |-> 200]]
              ELSE \* del self.active_tasks[task_id] raises KeyError
                   /\ executions' = [executions EXCEPT ![e] =
                         [pc |-> "error", task_id |-> task_id,
                          error |-> "KeyError", code |-> 500]]
                   /\ UNCHANGED active_tasks
    /\ UNCHANGED <<status_reply, rag_service, handed>>
    /\ UNCHANGED <<sensorVars, ragVars, aiVars, seriesVars>>

InHistory(task_id) == \E i \in 1..Len(task_history) : task_history[i] = task_id

\* what get_task_status answers for an id: the status of the task found in
\* active_tasks or else in task_history, or a 404 for its ValueError
TaskStatus(task_id) ==
    IF task_id \in active_tasks \/ InHistory(task_id)
    THEN [op |-> "status", code |-> 200, task_id |-> task_id,
          status |-> task_objects[task_id].status]
    ELSE [op |-> "status", code |-> 404, task_id |-> task_id,
          status |-> "none"]

get_task_status(task_id) ==
    /\ status_reply' = TaskStatus(task_id)
    /\ UNCHANGED <<task_objects, active_tasks, task_history, executions,
                   rag_service, handed>>
    /\ UNCHANGED <<sensorVars, ragVars, aiVars, seriesVars>>

\* the global after "if rag_service is None: rag_service = RAGService();
\* await rag_service.initialize_knowledge_base()", the latter ending as outcome
Provided(outcome) ==
    IF rag_service.instance = "None"
    THEN [instance |-> "RAGService", initialized |-> (outcome = "done")]
    ELSE rag_service

\* whether those lines raise: only when they run initialize_knowledge_base
Raises(outcome) == rag_service.instance = "None" /\ outcome = "raise"

\* get_rag_service, the dependency of the plantgpt handlers
get_rag_service(outcome) ==
    /\ rag_service' = Provided(outcome)
    /\ handed' = IF Raises(outcome)
                 THEN [outcome |-> "raised"]
                 ELSE Handed(Provided(outcome), rag_service.instance = "None")
    /\ UNCHANGED <<task_objects, active_tasks, task_history, executions,
                   status_reply>>
    /\ UNCHANGED <<sensorVars, ragVars, aiVars, seriesVars>>

\* GET /health of the plantgpt router: the same lines, answered by 200 or 503
health_check(outcome) ==
    /\ rag_service' = Provided(outcome)
    /\ handed' = [outcome |-> "health",
                  code |-> IF Raises(outcome) THEN 503 ELSE 200]
    /\ UNCHANGED <<task_objects, active_tasks, task_history, executions,
                   status_reply>>
    /\ UNCHANGED <<sensorVars, ragVars, aiVars, seriesVars>>

\* the app of main.py with its agent service and the plantgpt router
InitApp ==
    /\ variant = "main"
    /\ sensor_data_store = << >>
    /\ now = 0
    /\ polls = 0
    /\ calibrations = 0
    /\ response = NoResponse
    /\ RAGServiceInit
    /\ AppInit
    /\ StoresInit
    /\ text_model = "none"
    /\ series_limit = 0

NextApp ==
    \/ \E task_type \in TaskTypes : create_task(task_type)
    \/ \E e \in 1..MaxExecutions :
          \E task_id \in CreatedIds \cup {UnknownTaskId} : execute_task(e, task_id)
    \/ \E e \in 1..MaxExecutions :
          \E status \in {"completed", "failed"} : agent_run_returns(e, status)
    \/ \E task_id \in CreatedIds \cup {UnknownTaskId} : get_task_status(task_id)
    \/ \E outcome \in {"done", "raise"} : get_rag_service(outcome)
    \/ \E outcome \in {"done", "raise"} : health_check(outcome)

SpecApp == InitApp /\ [][NextApp]_vars

\* ---------------------------------------------------- claims on the app
\* the status changes of an AgentTask the claim allows
StatusPath ==
    {<<"pending", "running">>, <<"running", "completed">>,
     <<"running", "failed">>}

\* C23: a task changes status only along pending -> running -> completed or
\* failed; when execute_task returns a response the task has left
\* active_tasks and is in task_history with the response's status, and
\* get_task_status answers for its id from then on
TaskStatusFollowsLifecycle ==
    [][ /\ \A t \in CreatedIds :
              task_objects'[t].status # task_objects[t].status
                 => <<task_objects[t].status, task_objects'[t].status>> \in StatusPath
        /\ \A e \in 1..MaxExecutions :
              executions'[e].pc = "returned" =>
                 LET t == executions[e].task_id
                 IN  /\ executions[e].pc # "returned" =>
                           /\ t \notin active_tasks'
                           /\ InHistory(t)'
                           /\ task_objects'[t].status = executions'[e].status
                     /\ TaskStatus(t)'.code = 200 ]_vars

\* C24: an execute_task call rejected with ValueError leaves active_tasks,
\* task_history and the status of every task as they were before the call
RejectedExecuteChangesNothing ==
    [][ \A e \in 1..MaxExecutions :
           executions[e].pc # "rejected" /\ executions'[e].pc = "rejected"
              => UNCHANGED <<active_tasks, task_history, task_objects>> ]_vars

Occurrences(task_id) ==
    Cardinality({i \in 1..Len(task_history) : task_history[i] = task_id})

\* C25: under concurrent execute_task calls for one task id the task is
\* appended to task_history at most once and no call ends in an internal
\* error when it deletes the task from active_tasks
ConcurrentExecutionsMoveTaskOnce ==
    /\ \A t \in CreatedIds : Occurrences(t) <= 1
    /\ \A e \in 1..MaxExecutions : executions[e].pc # "error"

\* C28: an instance get_rag_service hands to a handler has completed
\* initialize_knowledge_base, and where an earlier request left the instance
\* uninitialised the request performs the initialisation again
HandedServiceIsInitialised ==
    [][ handed' # handed /\ handed'.outcome = "instance" =>
           /\ handed'.initialized
           /\ (rag_service.instance = "RAGService" /\ ~rag_service.initialized
                  => handed'.performed) ]_vars

\* ------------------------------------------- claims on concurrent chats
\* the assistant message answers the user message: it carries the LLM text
\* of the request that sent the user message, or the apology
IsReplyTo(assistant_message, user_message) ==
    /\ assistant_message.role = "assistant"
    /\ \E r \in 1..MaxChats :
          /\ user_message = ChatMessage("user", Message(r))
          /\ assistant_message.content \in {LLMText(r), APOLOGY}

\* C26: under any interleaving of chat requests on one conversation id every
\* history alternates user and assistant messages, starting with a user
\* message, each assistant message being the reply to the user message
\* just before it
HistoriesAlternate ==
    \A c \in DOMAIN conversations :
        LET history == conversations[c]
        IN  \A i \in 1..Len(history) :
               IF i % 2 = 1
               THEN history[i].role = "user"
               ELSE IsReplyTo(history[i], history[i - 1])

\* C27: no chat request whose LLM call returned ends in an error, whatever
\* clear_conversation calls were served while it waited: it completes with
\* a response
ClearLeavesChatsUnharmed ==
    \A r \in 1..MaxChats :
        chats[r].pc \notin {"idle", "llm"} =>
            /\ chats[r].pc = "done"
            /\ chats[r].response \in {LLMText(r), APOLOGY}

\* ------------------------------------------- main_updated in a long run
\* the number of earlier polls the long run starts after, at most
LongWalk == 22

\* the draws of a poll in which mill-eff draws <<noise, drift>> and every
\* other sensor <<0, 0>>
MillEffDraw(noise, drift) ==
    [s \in SensorIds("updated") |->
        IF s = "mill-eff" THEN <<noise, drift>> ELSE <<0, 0>>]

\* the lowest noise of mill-eff with no drift
DownDraw == MillEffDraw(-Variation(SENSORS_updated["mill-eff"]), 0)

\* the stored values of mill-eff at start-up and after each of k polls of
\* GET /api/sensors in which it drew DownDraw
RECURSIVE WalkedValues(_)
WalkedValues(k) ==
    IF k = 0
    THEN << generate_sensor_value("updated", "mill-eff",
                SENSORS_updated["mill-eff"].optimal, 0, 0).value >>
    ELSE LET earlier == WalkedValues(k - 1)
         IN  Append(earlier,
                    generate_sensor_value("updated", "mill-eff",
                        earlier[Len(earlier)],
                        DownDraw["mill-eff"][1], DownDraw["mill-eff"][2]).value)

\* the stored value of mill-eff after those k polls
WalkedValue(k) == WalkedValues(k)[k + 1]

\* the store of main_updated after start-up and those k polls: mill-eff
\* generated from its value after k - 1 polls, every other sensor from its
\* optimal value, which the draw <<0, 0>> keeps
Walked(k) ==
    IF k = 0
    THEN generate_all_sensor_data("updated", MillEffDraw(0, 0))
    ELSE [s \in SensorIds("updated") |->
            generate_sensor_value("updated", s,
                IF s = "mill-eff" THEN WalkedValue(k - 1)
                ELSE SENSORS_updated[s].optimal,
                DownDraw[s][1], DownDraw[s][2])]

\* the sampled draws of the polls of the long run
WalkDraws ==
    LET variation == Variation(SENSORS_updated["mill-eff"])
    IN  {MillEffDraw(-variation, -DRIFT), MillEffDraw(-variation, FINE),
         MillEffDraw(0, 0), MillEffDraw(variation, DRIFT)}

\* GET /api/sensors in the long run
get_sensor_data_walking == SensorsHandler(WalkDraws)

\* main_updated some polls after start-up
InitWalk ==
    /\ variant = "updated"
    /\ \E k \in 0..LongWalk : sensor_data_store = Walked(k)
    /\ now = 0
    /\ polls = 0
    /\ calibrations = 0
    /\ response = NoResponse
    /\ RAGServiceInit
    /\ AppInit
    /\ StoresInit
    /\ text_model = "none"
    /\ series_limit = 0

NextWalk ==
    \/ Tick
    \/ get_sensor_data_walking
    \/ get_alerts
    \/ get_dashboard_summary

SpecWalk == InitWalk /\ [][NextWalk]_vars

\* what the last response says of the plant: GET /api/alerts lists an alert,
\* and while the mill-eff reading is critical neither overall_status of
\* GET /api/sensors nor system_status of the summary is normal
MillEffShowsInResponses ==
    /\ response.op = "alerts" => Len(response.body.alerts) > 0
    /\ sensor_data_store["mill-eff"].status = "critical" =>
          /\ response.op = "sensors" => response.overall_status # "normal"
          /\ response.op = "summary" => response.summary.system_status # "normal"

AgentExecutionSucceeds ==
    \/ pending.op = "agent" /\ pending' = NoCall
    \/ /\ pending = NoCall /\ pending' = NoCall
       /\ requests' # requests
       /\ response'.op = "agent" /\ response'.code = 200

\* C30: every successful agent execution of main_updated adds an entry of
\* its own to agent_tasks, under a task id no earlier entry has, and leaves
\* the stored results of the earlier executions as they were
AgentTasksKeepEveryExecution ==
    [][ AgentExecutionSucceeds =>
           /\ response'.task_id \notin DOMAIN agent_tasks
           /\ Cardinality(DOMAIN agent_tasks') = Cardinality(DOMAIN agent_tasks) + 1
           /\ \A t \in DOMAIN agent_tasks : agent_tasks'[t] = agent_tasks[t] ]_vars

====
